---- MODULE Spec2Model ----
(***************************************************************************)
(* Local assembly routines of the p-Laplacian (Q1 FEM) program and of the  *)
(* ice (FVE) program on a distributed structured grid, the main programs   *)
(* around them, and the main program of loadsolve.                         *)
(*                                                                         *)
(* main is cut at the calls of the solver: what precedes the solve is one  *)
(* action, every callback of the solver is one action, what follows the    *)
(* solve is one action.                                                    *)
(* One collective callback (objective, residual) is one action: every      *)
(* process of the partition runs the local routine on its own patch; the   *)
(* local routines do not interact, so their interleaving is immaterial.    *)
(* Floating-point values are kept exact: node values are integers, and a   *)
(* quadrature sum or a flux evaluation is recorded as the tuple of the     *)
(* arguments it was evaluated on.                                          *)
(***************************************************************************)
EXTENDS Integers, Sequences, FiniteSets, Bags, TLC

\* Largest grid dimension explored: mx, my range over 3..MaxM.
MaxM == 4
\* Largest number of processes along one grid direction.
MaxProcs == 2

VARIABLES
    prog,       \* which program runs: "plap", "ice" or "loadsolve"
    pc,         \* where main is: "setup", "solve", "done" or "failed"
    cfg,        \* the values of the options
    out,        \* what main has printed and how it returned, after the
                \* converged reason and the dump option it acted on
    mx, my,     \* global grid dimensions (DMDALocalInfo mx, my)
    lx, ly,     \* widths of the owned index ranges along x and along y
    au,         \* the solver's current iterate, node -> value
    perturbed,  \* the solver has changed the iterate since construction
    last,       \* the callback that ran on the current iterate last: "none",
                \* "objective", "function"
    FF,         \* the residual array, node -> value; kept between calls
    obj,        \* the reduced objective: a bag of integral and boundary terms
    acc,        \* residual accumulations of the last call: <<p, i, j, l, PP, QQ>>
    elems,      \* elements the objective loop visited: <<p, i, j>>
    bdry,       \* boundary terms the objective added: <<p, side, i, j>>
    reads,      \* iterate entries read in the last call: <<p, i, j>>
    inwr,       \* entries of the array of the iterate written in the last
                \* call: <<p, i, j>>
    writes,     \* residual entries written in the last call: <<p, i, j>>
    verif,      \* ice: -ice_verif, the dome case with a flat bed
    check,      \* ice: -ice_check_admissible
    err,        \* ice: the processes whose last call returned the error
    work,       \* ice: per process, the work vectors the last call got and
                \* those it restored
    bedwr,      \* ice: bed entries the last call computed: <<p, j, k>>
    fluxwr,     \* ice: flux entries the last call computed: <<p, c, j, k>>
    Xl, Xu,     \* ice: the lower and upper bounds of the solver, node -> value
    rhs,        \* loadsolve: the right-hand side b
    loads       \* loadsolve: the number of VecLoad calls made

vars == <<prog, pc, cfg, out, mx, my, lx, ly, au, perturbed, last, FF, obj,
          acc, elems, bdry, reads, inwr, writes, verif, check, err, work, bedwr,
          fluxwr, Xl, Xu, rhs, loads>>

plapVars == <<obj, acc, elems, bdry>>
iceVars == <<verif, check, err, work, bedwr, fluxwr>>
mainVars == <<pc, cfg, out, rhs, loads>>

----------------------------------------------------------------------------
(* The grid and its partition into owned rectangles.                       *)

\* An array given by a rule, stored entry by entry.
Table(f) == f @@ <<>>

RECURSIVE SumTo(_, _)
SumTo(l, r) == IF r = 0 THEN 0 ELSE l[r] + SumTo(l, r - 1)

\* DMDACreate2d is given no ownership ranges (lx = ly = NULL): n nodes are
\* split evenly over k processes, the first n % k ranges one node wider.
Widths(n, k) == [r \in 1..k |-> (n \div k) + (IF (n % k) > r - 1 THEN 1 ELSE 0)]

\* PETSC_DECIDE: any number of processes along a direction that leaves
\* every process at least the stencil width of nodes.
Partitions(n) == {Widths(n, k) : k \in {m \in 1..MaxProcs : m <= n}}

Nodes == (0..mx-1) \X (0..my-1)

Procs == (1..Len(lx)) \X (1..Len(ly))

\* The DMDALocalInfo of process p.
Info(p) ==
    [xs |-> SumTo(lx, p[1] - 1), xm |-> lx[p[1]],
     ys |-> SumTo(ly, p[2] - 1), ym |-> ly[p[2]]]

Owned(I, i, j) ==
    i >= I.xs /\ i < I.xs + I.xm /\ j >= I.ys /\ j < I.ys + I.ym

\* The local (ghosted) array of a process: owned rectangle and a halo of
\* width 1 (box stencil), as far as the global grid reaches.
InPatch(I, i, j) ==
    /\ i >= I.xs - 1 /\ i <= I.xs + I.xm
    /\ j >= I.ys - 1 /\ j <= I.ys + I.ym
    /\ i >= 0 /\ i <= mx - 1 /\ j >= 0 /\ j <= my - 1

OnBoundary(i, j) == i = 0 \/ i = mx - 1 \/ j = 0 \/ j = my - 1

Owner(i, j) == CHOOSE p \in Procs : Owned(Info(p), i, j)

\* The nodes <<j, k>> of a double loop over j = a..b and k = c..d.
Box(a, b, c, d) == {<<j, k>> : j \in a..b, k \in c..d}

\* The nodes of a local (ghosted) array.
PatchNodes(I) ==
    {n \in Box(I.xs - 1, I.xs + I.xm, I.ys - 1, I.ys + I.ym) :
        InPatch(I, n[1], n[2])}

\* What a read of the ghosted array yields at <<i, j>>: the iterate inside
\* the patch, and whatever the memory holds (junk) outside it.
Rd(I, a, i, j, junk) == IF InPatch(I, i, j) THEN a[<<i, j>>] ELSE junk

\* Values memory may hold where the program has not written.
Junk == {0, 7}

\* Values the solver may put into an entry of the iterate.
SolverVals == {-1, 2}

----------------------------------------------------------------------------
(* The p-Laplacian program.                                                *)

\* Boundary and exact-solution value at node <<i, j>>.
BoundaryG(i, j) == (i + 1) * (i + 1) * (j + 1) * (j + 1)

\* InitialIterateUExact: linear interpolation in x between the boundary
\* values on the left and on the right side.
InitialIterate ==
    [n \in Nodes |->
        BoundaryG(0, n[2])
        + (n[1] * (BoundaryG(mx - 1, n[2]) - BoundaryG(0, n[2]))) \div (mx - 1)]

\* Reference coordinates of the four corners of an element.
xiL(l)  == IF l = 0 \/ l = 3 THEN 1 ELSE -1
etaL(l) == IF l = 0 \/ l = 1 THEN 1 ELSE -1

li(l) == IF l = 0 \/ l = 3 THEN 0 ELSE -1
lj(l) == IF l = 0 \/ l = 1 THEN 0 ELSE -1

\* GetUorGElement, corner L of element <<i, j>>: the node, and whether the
\* boundary function is taken there.
CornerNode(i, j, L) == <<i + li(L), j + lj(L)>>

\* A test that looks at the upper right node for every corner.
CornerIsGUpperRight(i, j, L) == (i = mx - 1) \/ (j = my - 1)

CornerIsG(i, j, L) ==
    CASE L = 0 -> (i = mx - 1) \/ (j = my - 1)
      [] L = 1 -> (i - 1 = 0) \/ (j = my - 1)
      [] L = 2 -> (i - 1 = 0) \/ (j - 1 = 0)
      [] L = 3 -> (i = mx - 1) \/ (j - 1 = 0)

GetUorGElement(I, i, j, a, junk) ==
    Table([L \in 0..3 |->
        LET n == CornerNode(i, j, L)
        IN  IF CornerIsG(i, j, L) THEN BoundaryG(n[1], n[2])
            ELSE Rd(I, a, n[1], n[2], junk)])

\* Iterate entries GetUorGElement reads for element <<i, j>>.
GetUorGReads(i, j) ==
    {CornerNode(i, j, L) : L \in {M \in 0..3 : ~CornerIsG(i, j, M)}}

----------------------------------------------------------------------------
(* FormObjectiveLocal.                                                     *)

\* The element loop: upper-right nodes <<i, j>> of the elements visited.
ObjElements(I) ==
    {<<i, j>> : i \in (I.xs + 1)..(I.xs + I.xm - 1),
                j \in (I.ys + 1)..(I.ys + I.ym - 1)}

ObjjS(I) == IF I.ys = 0 THEN 1 ELSE 0
ObjjE(I) == IF I.ys + I.ym = my THEN my - 1 ELSE my

\* The four boundary loops: <<side, i, j>> for every term added.
ObjBoundaryNodes(I) ==
    (IF I.ys = 0
        THEN {<<"bottom", i, 0>> : i \in I.xs..(I.xs + I.xm - 1)} ELSE {})
    \cup
    (IF I.ys + I.ym = my
        THEN {<<"top", i, my - 1>> : i \in I.xs..(I.xs + I.xm - 1)} ELSE {})
    \cup
    (IF I.xs = 0
        THEN {<<"left", 0, j>> : j \in ObjjS(I)..(ObjjE(I) - 1)} ELSE {})
    \cup
    (IF I.xs + I.xm = mx
        THEN {<<"right", mx - 1, j>> : j \in ObjjS(I)..(ObjjE(I) - 1)} ELSE {})

\* lobj of one process: one term per element visited and one per boundary
\* term added, each with the values it was evaluated on.
LocalObjective(I, a, junk) ==
    SetToBag({<<"element", e[1], e[2], GetUorGElement(I, e[1], e[2], a, junk)>> :
                 e \in ObjElements(I)})
    (+)
    SetToBag({<<b[1], b[2], b[3], Rd(I, a, b[2], b[3], junk)>> :
                 b \in ObjBoundaryNodes(I)})

ObjReads(I) ==
    UNION {GetUorGReads(e[1], e[2]) : e \in ObjElements(I)}
    \cup {<<b[2], b[3]>> : b \in ObjBoundaryNodes(I)}

RECURSIVE BagSum(_, _)
\* MPI_Allreduce with MPI_SUM over the processes in P.
BagSum(f, P) ==
    IF P = {} THEN EmptyBag
    ELSE LET p == CHOOSE q \in P : TRUE
         IN  f[p] (+) BagSum(f, P \ {p})

----------------------------------------------------------------------------
(* FormFunctionLocal of the p-Laplacian.                                   *)

FuniS(I) == IF I.xs < 1 THEN 1 ELSE I.xs
FunjS(I) == IF I.ys < 1 THEN 1 ELSE I.ys
\* FuniE stopping at the last owned column.
FuniEOwned(I) == IF I.xs + I.xm > mx - 1 THEN mx - 1 ELSE I.xs + I.xm - 1
FuniE(I) == IF I.xs + I.xm > mx - 1 THEN mx - 1 ELSE I.xs + I.xm
FunjE(I) == IF I.ys + I.ym > my - 1 THEN my - 1 ELSE I.ys + I.ym

FunElements(I) == {<<i, j>> : i \in FuniS(I)..FuniE(I), j \in FunjS(I)..FunjE(I)}

\* FunAccepts without the test for the global boundary.
FunAcceptsOwned(I, PP, QQ) == Owned(I, PP, QQ)

\* The test guarding the accumulation into node <<PP, QQ>>.
FunAccepts(I, PP, QQ) ==
    /\ PP > 0 /\ PP < mx - 1 /\ QQ > 0 /\ QQ < my - 1
    /\ PP >= I.xs /\ PP < I.xs + I.xm
    /\ QQ >= I.ys /\ QQ < I.ys + I.ym

\* An element loop that accumulates into every corner inside the local array.
FunAccumulationsUnguarded(I) ==
    {c \in {<<e[1], e[2], l, e[1] + li(l), e[2] + lj(l)>> :
                e \in FunElements(I), l \in 0..3} :
        InPatch(I, c[4], c[5])}

\* Every accumulation FF[QQ][PP] += ... of the element loop.
FunAccumulations(I) ==
    {c \in {<<e[1], e[2], l, e[1] + li(l), e[2] + lj(l)>> :
                e \in FunElements(I), l \in 0..3} :
        FunAccepts(I, c[4], c[5])}

\* The first loop: boundary residuals are set and the others cleared.
FunInitValue(I, a, i, j, junk) ==
    IF OnBoundary(i, j)
        THEN [base |-> Rd(I, a, i, j, junk) - BoundaryG(i, j), terms |-> EmptyBag]
        ELSE [base |-> 0, terms |-> EmptyBag]

\* One run of the routine on the patch of I, old being the residual array's
\* content at entry: the residual entries written (FF), the accumulations
\* made, and the entries of the residual written and of the iterate read.
FormFunctionLocal(I, a, old, junk) ==
    LET A == FunAccumulations(I)
        U == [e \in FunElements(I) |-> GetUorGElement(I, e[1], e[2], a, junk)]
        W == {<<i, j>> : i \in I.xs..(I.xs + I.xm - 1), j \in I.ys..(I.ys + I.ym - 1)}
             \cup {<<c[4], c[5]>> : c \in A}
    IN  [FF |-> Table([n \in W |->
                    LET init == IF Owned(I, n[1], n[2])
                                    THEN FunInitValue(I, a, n[1], n[2], junk)
                                    ELSE old[n]
                        add  == {<<c[1], c[2], c[3], U[<<c[1], c[2]>>]>> :
                                    c \in {d \in A : d[4] = n[1] /\ d[5] = n[2]}}
                    IN  [base |-> init.base, terms |-> init.terms (+) SetToBag(add)]]),
         acc |-> A,
         writes |-> W,
         inwr |-> {},
         reads |-> {n \in W : Owned(I, n[1], n[2]) /\ OnBoundary(n[1], n[2])}
                   \cup UNION {GetUorGReads(e[1], e[2]) : e \in FunElements(I)}]

----------------------------------------------------------------------------
(* The ice program.                                                        *)

\* Side length of the square (-ice_L), taken so that the spacings dx, dy
\* and their halves are whole numbers.
L == 2 * (mx - 1) * (my - 1)
dx == L \div (mx - 1)
dy == L \div (my - 1)

\* b(x,y) of FormBedLocal at node <<j, k>>: a sum of products of sines of
\* multiples of pi x/L and pi y/L, which vanishes on the sides of the square.
BedValue(j, k) == j * (mx - 1 - j) * (j + 1) * k * (my - 1 - k)

\* ce with points s = 3 and s = 4 exchanged.
ceSwapped(s) == CASE s = 0 -> 0 [] s = 1 -> 3 [] s = 2 -> 1 [] s = 3 -> 2
                  [] s = 4 -> 0 [] s = 5 -> 1 [] s = 6 -> 3 [] s = 7 -> 2

\* Indexing of the 8 quadrature points on the boundary of a control volume.
je(s) == IF s \in {2, 3, 4, 5} THEN -1 ELSE 0
ke(s) == IF s \in {4, 5, 6, 7} THEN -1 ELSE 0
ce(s) == CASE s = 0 -> 0 [] s = 1 -> 3 [] s = 2 -> 1 [] s = 3 -> 0
           [] s = 4 -> 2 [] s = 5 -> 1 [] s = 6 -> 3 [] s = 7 -> 2

\* Direction of the flux at the 4 points of an element.
xdire(c) == c = 0 \/ c = 2

\* Local coordinates of the 4 points of an element, in quarters.
locx(c) == CASE c = 0 -> 2 [] c = 1 -> 3 [] c = 2 -> 2 [] c = 3 -> 1
locy(c) == CASE c = 0 -> 1 [] c = 1 -> 2 [] c = 2 -> 3 [] c = 3 -> 2

\* coeff with the sign of the west face lost at s = 3.
coeffSameSign(s) ==
    CASE s = 0 -> dy \div 2    [] s = 1 -> dx \div 2
      [] s = 2 -> dx \div 2    [] s = 3 -> dy \div 2
      [] s = 4 -> -(dy \div 2) [] s = 5 -> -(dx \div 2)
      [] s = 6 -> -(dx \div 2) [] s = 7 -> dy \div 2

\* Coefficients of the 8 quadrature evaluations.
coeff(s) ==
    CASE s = 0 -> dy \div 2    [] s = 1 -> dx \div 2
      [] s = 2 -> dx \div 2    [] s = 3 -> -(dy \div 2)
      [] s = 4 -> -(dy \div 2) [] s = 5 -> -(dx \div 2)
      [] s = 6 -> -(dx \div 2) [] s = 7 -> dy \div 2


\* A local array as DMGetLocalVector hands it out: its entries hold
\* whatever an earlier use left in them.
LocalVector(I, junk) == [n \in PatchNodes(I) |-> junk]

\* A read of a local array.
ArrRd(arr, n, junk) == IF n \in DOMAIN arr THEN arr[n] ELSE junk

\* The corner nodes of element <<u, v>> in the order of ff[4].
Corners(u, v) == <<<<u, v>>, <<u + 1, v>>, <<u + 1, v + 1>>, <<u, v + 1>>>>

\* FormBedLocal: the entries of ab it writes, and ab after it.
BedWrites(I, stencilwidth) ==
    {n \in Box(I.xs - stencilwidth, I.xs + I.xm + stencilwidth - 1, I.ys - stencilwidth, I.ys + I.ym + stencilwidth - 1) :
        ~(n[1] < 0 \/ n[1] >= mx - 1 \/ n[2] < 0 \/ n[2] >= my - 1)}

FormBedLocal(I, stencilwidth, ab) ==
    LET written == BedWrites(I, stencilwidth)
    IN  [n \in DOMAIN ab |->
            IF n \in written THEN BedValue(n[1], n[2]) ELSE ab[n]]

\* The first loop of FormFunctionLocal: the nodes it visits, in its order
\* (k outer, j inner).
CopyVisits(I) ==
    {n \in Box(I.xs - 1, I.xs + I.xm, I.ys - 1, I.ys + I.ym) :
        ~(n[1] < 0 \/ n[1] > mx - 1 \/ n[2] < 0 \/ n[2] > my - 1)}

CopyPos(I, n) == (n[2] - (I.ys - 1)) * (I.xm + 2) + (n[1] - (I.xs - 1))

\* The admissibility check applied to the owned nodes only.
InadmissibleOwned(I, a, junk) ==
    {n \in CopyVisits(I) :
        check /\ Owned(I, n[1], n[2]) /\ Rd(I, a, n[1], n[2], junk) < 0}

\* The visited nodes at which the admissibility check fails.
Inadmissible(I, a, junk) ==
    {n \in CopyVisits(I) : check /\ Rd(I, a, n[1], n[2], junk) < 0}

\* The nodes whose iteration of the first loop ran to its end: all of them,
\* or those before the first node that fails the admissibility test.
CopyDone(I, a, junk) ==
    LET bad == Inadmissible(I, a, junk)
    IN  IF bad = {} THEN CopyVisits(I)
        ELSE LET stop == CHOOSE n \in bad :
                            \A m \in bad : CopyPos(I, n) <= CopyPos(I, m)
             IN  {n \in CopyVisits(I) : CopyPos(I, n) < CopyPos(I, stop)}

\* A first loop that zeroes the boundary thickness in the array of the iterate.
CopyAssignsInPlace(I, a, n, junk) ==
    IF OnBoundary(n[1], n[2])
        THEN (IF Owned(I, n[1], n[2])
                  THEN {<<"FF", Rd(I, a, n[1], n[2], junk)>>} ELSE {})
             \cup {<<"aHin", 0>>, <<"aH", 0>>}
        ELSE {<<"aH", Rd(I, a, n[1], n[2], junk)>>}

\* The body of the first loop at node n: the assignments it makes, each
\* <<array, value>>.
CopyAssigns(I, a, n, junk) ==
    IF OnBoundary(n[1], n[2])
        THEN (IF Owned(I, n[1], n[2])
                  THEN {<<"FF", Rd(I, a, n[1], n[2], junk)>>} ELSE {})
             \cup {<<"aH", 0>>}
        ELSE {<<"aH", Rd(I, a, n[1], n[2], junk)>>}

\* The entry of the named array after the assignments asg, dflt being the
\* entry before them.
Stored(asg, array, dflt) ==
    IF \E w \in asg : w[1] = array
        THEN (CHOOSE w \in asg : w[1] = array)[2]
        ELSE dflt

\* A flux loop that starts at <<xs, ys>>.
FluxElementsOwned(I) ==
    {n \in Box(I.xs, I.xs + I.xm - 1, I.ys, I.ys + I.ym - 1) :
        ~(n[1] < 0 \/ n[1] >= mx - 1 \/ n[2] < 0 \/ n[2] >= my - 1)}

\* The flux loop: the elements it visits.
FluxElements(I) ==
    {n \in Box(I.xs - 1, I.xs + I.xm - 1, I.ys - 1, I.ys + I.ym - 1) :
        ~(n[1] < 0 \/ n[1] >= mx - 1 \/ n[2] < 0 \/ n[2] >= my - 1)}

\* SIAflux at point c of element <<j, k>>: the direction of the flux and
\* its value q, which is zero where the thickness copy vanishes on the
\* element, and otherwise a function of the corner values of the thickness
\* copy and of the bed.
FluxValue(c, j, k, aH, ab, junk) ==
    LET Hc == Table([m \in 1..4 |-> ArrRd(aH, Corners(j, k)[m], junk)])
        bc == Table([m \in 1..4 |-> ArrRd(ab, Corners(j, k)[m], junk)])
    IN  [c |-> c, xdir |-> xdire(c),
         q |-> IF \A m \in 1..4 : Hc[m] = 0 THEN <<>> ELSE <<Hc, bc>>]

\* The node loop without its skip of the global boundary.
NodeVisitsOwned(I) == Box(I.xs, I.xs + I.xm - 1, I.ys, I.ys + I.ym - 1)

\* The node loop: the nodes it computes a residual for.
NodeVisits(I) ==
    {n \in Box(I.xs, I.xs + I.xm - 1, I.ys, I.ys + I.ym - 1) :
        ~(n[1] = 0 \/ n[1] = mx - 1 \/ n[2] = 0 \/ n[2] = my - 1)}

\* The climatic mass balance at node n.
MassBalance(n, aH, ab, junk) ==
    IF verif THEN <<"DomeCMB", n[1], n[2]>>
    ELSE <<"M_CMBModel", ArrRd(ab, n, junk) + ArrRd(aH, n, junk)>>

\* The residual the node loop leaves at node n = <<j, k>>.
NodeResidual(n, aH, ab, aq, junk) ==
    [base |-> 0,
     terms |-> SetToBag(
        {<<"source", MassBalance(n, aH, ab, junk), dx * dy>>}
        \cup {<<"flux", s, coeff(s), ce(s), n[1] + je(s), n[2] + ke(s),
                ArrRd(aq, <<ce(s), <<n[1] + je(s), n[2] + ke(s)>>>>, junk)>> :
                 s \in 0..7})]

\* The work vectors of FormFunctionLocal.
WorkVectors == {"Hcopy", "b", "qquad0", "qquad1", "qquad2", "qquad3"}

\* One run of FormFunctionLocal on the patch of I, old being the residual
\* array's content at entry.
IceFunctionLocal(I, a, old, junk) ==
    LET pn == PatchNodes(I)
        done == CopyDone(I, a, junk)
        fail == Inadmissible(I, a, junk) # {}
        asg == Table([n \in pn |->
                   IF n \in done THEN CopyAssigns(I, a, n, junk) ELSE {}])
        aH == Table([n \in pn |-> Stored(asg[n], "aH", junk)])
        bdw == {n \in done : \E w \in asg[n] : w[1] = "FF"}
        ab == IF verif THEN Table([n \in pn |-> 0])
                       ELSE Table(FormBedLocal(I, 1, LocalVector(I, junk)))
        fl == FluxElements(I)
        aq == Table([e \in (0..3) \X pn |->
                  IF e[2] \in fl
                      THEN FluxValue(e[1], e[2][1], e[2][2], aH, ab, junk)
                      ELSE junk])
        nv == NodeVisits(I)
    IN  [err |-> fail,
         FF |-> Table([n \in Box(I.xs, I.xs + I.xm - 1, I.ys, I.ys + I.ym - 1) |->
                   IF ~fail /\ n \in nv THEN NodeResidual(n, aH, ab, aq, junk)
                   ELSE IF n \in bdw THEN [base |-> Stored(asg[n], "FF", junk),
                                           terms |-> EmptyBag]
                   ELSE old[n]]),
         inwr |-> {n \in pn : \E w \in asg[n] : w[1] = "aHin"},
         work |-> IF fail THEN [got |-> {"Hcopy"}, restored |-> {}]
                          ELSE [got |-> WorkVectors, restored |-> WorkVectors],
         reads |-> IF fail THEN LET rest == CopyVisits(I) \ done
                                IN  done \cup {n \in rest : \A m \in rest :
                                                CopyPos(I, n) <= CopyPos(I, m)}
                           ELSE done,
         writes |-> bdw \cup (IF fail THEN {} ELSE nv),
         bedwr |-> IF fail \/ verif THEN {} ELSE BedWrites(I, 1),
         fluxwr |-> IF fail THEN {} ELSE (0..3) \X fl]

----------------------------------------------------------------------------
(* State machine.                                                          *)

ZeroFF == [n \in Nodes |-> [base |-> 0, terms |-> EmptyBag]]

\* Nothing of the solver exists: before the grid and the solver are created
\* and after they are destroyed.
NoSolver ==
    /\ au = <<>> /\ FF = <<>> /\ Xl = <<>> /\ Xu = <<>>
    /\ perturbed = FALSE
    /\ last = "none"
    /\ obj = EmptyBag
    /\ acc = {} /\ elems = {} /\ bdry = {} /\ reads = {} /\ writes = {}
    /\ inwr = {}
    /\ err = {} /\ work = <<>> /\ bedwr = {} /\ fluxwr = {}

\* The solver, the grid and their vectors are destroyed.
DestroySolver ==
    /\ au' = <<>> /\ FF' = <<>> /\ Xl' = <<>> /\ Xu' = <<>>
    /\ perturbed' = FALSE
    /\ last' = "none"
    /\ obj' = EmptyBag
    /\ acc' = {} /\ elems' = {} /\ bdry' = {} /\ reads' = {} /\ writes' = {}
    /\ inwr' = {}
    /\ err' = {} /\ work' = <<>> /\ bedwr' = {} /\ fluxwr' = {}

\* A test of the quadrature degree that lets 4 pass.
ConfigureCtxUpTo4(c) ==
    IF c.p < 1 THEN 1
    ELSE IF (c.quaddegree < 1) \/ (c.quaddegree > 4) THEN 2
    ELSE 0

\* The error code ConfigureCtx returns for the options c; 0 is success.
ConfigureCtx(c) ==
    IF c.p < 1 THEN 1
    ELSE IF (c.quaddegree < 1) \/ (c.quaddegree > 3) THEN 2
    ELSE 0

\* plap starts: the options and the grid the run is given.
InitPLap ==
    /\ prog = "plap"
    /\ pc = "setup"
    /\ cfg \in [p : {0, 1}, quaddegree : {0, 3, 4}]
    /\ out = <<>>
    /\ mx \in 3..MaxM /\ my \in 3..MaxM
    /\ lx \in Partitions(mx) /\ ly \in Partitions(my)
    /\ NoSolver
    /\ verif = FALSE /\ check = FALSE
    /\ rhs = <<>> /\ loads = 0

\* main of plap up to SNESSolve: ConfigureCtx, then the grid, the initial
\* iterate and the solver.
PLapSetup ==
    /\ prog = "plap"
    /\ pc = "setup"
    /\ IF ConfigureCtx(cfg) # 0
           THEN /\ pc' = "failed"
                /\ out' = <<<<"error", ConfigureCtx(cfg)>>>>
                /\ UNCHANGED <<au, FF>>
           ELSE /\ pc' = "solve"
                /\ out' = out
                /\ au' = InitialIterate
                /\ FF' = ZeroFF
    /\ UNCHANGED <<prog, cfg, mx, my, lx, ly, perturbed, last, obj, acc, elems,
                   bdry, reads, inwr, writes, verif, check, err, work, bedwr,
                   fluxwr, Xl, Xu, rhs, loads>>

\* The solver is running and may call back.
Solving == pc = "solve" /\ (prog = "ice" => Xl # <<>>)

\* The solver changes one entry of the iterate between two callbacks.
SolverStep ==
    /\ Solving
    /\ ~perturbed
    /\ last # "error"
    /\ \E n \in Nodes, v \in SolverVals : au' = [au EXCEPT ![n] = v]
    /\ perturbed' = TRUE
    /\ last' = "none"
    /\ obj' = EmptyBag
    /\ acc' = {} /\ elems' = {} /\ bdry' = {} /\ reads' = {} /\ writes' = {}
    /\ inwr' = {}
    /\ bedwr' = {} /\ fluxwr' = {}
    /\ UNCHANGED <<prog, mx, my, lx, ly, FF, verif, check, err, work, Xl, Xu>>
    /\ UNCHANGED mainVars

\* The solver asks for the objective: FormObjectiveLocal on every process,
\* then the sum over the processes.
PLapObjective ==
    /\ prog = "plap"
    /\ Solving
    /\ \E junk \in Junk :
        /\ obj' = BagSum([p \in Procs |-> LocalObjective(Info(p), au, junk)], Procs)
    /\ elems' = UNION {{<<p, e[1], e[2]>> : e \in ObjElements(Info(p))} : p \in Procs}
    /\ bdry' = UNION {{<<p, b[1], b[2], b[3]>> : b \in ObjBoundaryNodes(Info(p))} :
                         p \in Procs}
    /\ reads' = UNION {{<<p, n[1], n[2]>> : n \in ObjReads(Info(p))} : p \in Procs}
    /\ inwr' = {}
    /\ last' = "objective"
    /\ acc' = {} /\ writes' = {}
    /\ UNCHANGED <<prog, mx, my, lx, ly, au, perturbed, FF, Xl, Xu>>
    /\ UNCHANGED iceVars
    /\ UNCHANGED mainVars

\* The solver asks for the residual: FormFunctionLocal on every process,
\* each writing its part of the residual array.
PLapFunction ==
    /\ prog = "plap"
    /\ Solving
    /\ \E junk \in Junk :
        \E loc \in {Table([p \in Procs |-> FormFunctionLocal(Info(p), au, FF, junk)])} :
            /\ FF' = [n \in Nodes |-> loc[Owner(n[1], n[2])].FF[n]]
            /\ acc' = UNION {{<<p>> \o c : c \in loc[p].acc} : p \in Procs}
            /\ writes' = UNION {{<<p>> \o n : n \in loc[p].writes} : p \in Procs}
            /\ reads' = UNION {{<<p>> \o n : n \in loc[p].reads} : p \in Procs}
            /\ inwr' = UNION {{<<p>> \o n : n \in loc[p].inwr} : p \in Procs}
    /\ last' = "function"
    /\ obj' = EmptyBag
    /\ elems' = {} /\ bdry' = {}
    /\ UNCHANGED <<prog, mx, my, lx, ly, au, perturbed, Xl, Xu>>
    /\ UNCHANGED iceVars
    /\ UNCHANGED mainVars

\* ice starts: the options and the grid the run is given.
InitIce ==
    /\ prog = "ice"
    /\ pc = "setup"
    /\ cfg \in [n_ice : {0, 1, 3}]
    /\ out = <<>>
    /\ mx \in 3..MaxM /\ my \in 3..MaxM
    /\ lx \in Partitions(mx) /\ ly \in Partitions(my)
    /\ NoSolver
    /\ verif \in BOOLEAN /\ check \in BOOLEAN
    /\ rhs = <<>> /\ loads = 0

\* main of ice up to SNESSolve: the options with the test of n, then the
\* grid, the solver and the zero initial iterate.
IceSetup ==
    /\ prog = "ice"
    /\ pc = "setup"
    /\ IF cfg.n_ice <= 1
           THEN /\ pc' = "failed"
                /\ out' = <<<<"error", 1>>>>
                /\ UNCHANGED <<au, FF>>
           ELSE /\ pc' = "solve"
                /\ out' = out
                /\ au' = [n \in Nodes |-> 0]
                /\ FF' = ZeroFF
    /\ UNCHANGED <<prog, cfg, mx, my, lx, ly, perturbed, last, obj, acc, elems,
                   bdry, reads, inwr, writes, verif, check, err, work, bedwr,
                   fluxwr, Xl, Xu, rhs, loads>>

PETSC_INFINITY == "PETSC_INFINITY"

\* Bounds that follow the iterate where it is negative.
FormBoundsFromIterate ==
    [Xl |-> [n \in Nodes |-> IF au[n] < 0 THEN au[n] ELSE 0],
     Xu |-> [n \in Nodes |-> PETSC_INFINITY]]

\* FormBounds: the two vectors it leaves.
FormBounds ==
    [Xl |-> [n \in Nodes |-> 0],
     Xu |-> [n \in Nodes |-> PETSC_INFINITY]]

\* The solver asks for the bounds: when it is set up at the start of
\* SNESSolve, before the first residual, and whenever it wants them again.
IceBounds ==
    /\ prog = "ice"
    /\ pc = "solve"
    /\ last # "error"
    /\ Xl' = FormBounds.Xl
    /\ Xu' = FormBounds.Xu
    /\ UNCHANGED <<prog, mx, my, lx, ly, au, perturbed, last, FF, reads, inwr,
                   writes>>
    /\ UNCHANGED plapVars
    /\ UNCHANGED iceVars
    /\ UNCHANGED mainVars

\* The solver asks for the residual of the ice problem: FormFunctionLocal on
\* every process.  A process that finds the iterate inadmissible returns the
\* error, which ends the run.
IceFunction ==
    /\ prog = "ice"
    /\ Solving
    /\ last # "error"
    /\ \E junk \in Junk :
        \E loc \in {Table([p \in Procs |-> IceFunctionLocal(Info(p), au, FF, junk)])} :
            /\ FF' = [n \in Nodes |-> loc[Owner(n[1], n[2])].FF[n]]
            /\ err' = {p \in Procs : loc[p].err}
            /\ last' = IF \E p \in Procs : loc[p].err THEN "error" ELSE "function"
            /\ work' = [p \in Procs |-> loc[p].work]
            /\ inwr' = UNION {{<<p>> \o n : n \in loc[p].inwr} : p \in Procs}
            /\ reads' = UNION {{<<p>> \o n : n \in loc[p].reads} : p \in Procs}
            /\ writes' = UNION {{<<p>> \o n : n \in loc[p].writes} : p \in Procs}
            /\ bedwr' = UNION {{<<p>> \o n : n \in loc[p].bedwr} : p \in Procs}
            /\ fluxwr' = UNION {{<<p, e[1], e[2][1], e[2][2]>> : e \in loc[p].fluxwr} :
                                  p \in Procs}
    /\ UNCHANGED <<prog, mx, my, lx, ly, au, perturbed, verif, check, Xl, Xu>>
    /\ UNCHANGED plapVars
    /\ UNCHANGED mainVars

\* A main that returns after the warning.
IceReportStopsAtWarning(reason, dump) ==
    IF reason <= 0 THEN <<"WARNING: SNES not converged">>
    ELSE <<"done on grid">>
         \o (IF dump THEN <<"writing PETSC binary file">> ELSE <<>>)
         \o (IF verif THEN <<"numerical errors">> ELSE <<>>)
         \o <<"PetscFinalize">>

\* What main of ice prints after SNESSolve has returned with the given
\* converged reason, and how it returns.
IceReport(reason, dump) ==
    (IF reason <= 0 THEN <<"WARNING: SNES not converged">> ELSE <<>>)
    \o <<"done on grid">>
    \o (IF dump THEN <<"writing PETSC binary file">> ELSE <<>>)
    \o (IF verif THEN <<"numerical errors">> ELSE <<>>)
    \o <<"PetscFinalize">>

\* SNESSolve returns without error, the residual having been evaluated at
\* least once: the rest of main, down to PetscFinalize.
IceFinish ==
    /\ prog = "ice"
    /\ pc = "solve"
    /\ last = "function"
    /\ \E reason \in {-1, 0, 2}, dump \in BOOLEAN :
           out' = <<<<"reason", reason, dump>>>> \o IceReport(reason, dump)
    /\ pc' = "done"
    /\ DestroySolver
    /\ UNCHANGED <<prog, cfg, mx, my, lx, ly, verif, check, rhs, loads>>

\* SNESSolve returns the error of the residual routine: main returns it.
IceAbort ==
    /\ prog = "ice"
    /\ pc = "solve"
    /\ last = "error"
    /\ out' = <<<<"error", 1>>>>
    /\ pc' = "failed"
    /\ DestroySolver
    /\ UNCHANGED <<prog, cfg, mx, my, lx, ly, verif, check, rhs, loads>>

NextPLap == PLapSetup \/ SolverStep \/ PLapObjective \/ PLapFunction

SpecPLap == InitPLap /\ [][NextPLap]_vars

NextIce ==
    IceSetup \/ IceBounds \/ SolverStep \/ IceFunction \/ IceFinish \/ IceAbort

SpecIce == InitIce /\ [][NextIce]_vars

Init == InitPLap \/ InitIce

Next ==
    \/ PLapSetup \/ PLapObjective \/ PLapFunction
    \/ IceSetup \/ IceBounds \/ IceFunction \/ IceFinish \/ IceAbort
    \/ SolverStep

Spec == Init /\ [][Next]_vars

----------------------------------------------------------------------------
(* The shape functions of the reference element, evaluated on their own.   *)

\* Reference coordinates are multiples of 1/RefSteps in [-1, 1].
RefSteps == 4

\* No grid and no solver: the state of a run that only evaluates a function.
NoGrid ==
    /\ mx = 0 /\ my = 0 /\ lx = <<>> /\ ly = <<>>
    /\ NoSolver
    /\ verif = FALSE /\ check = FALSE
    /\ rhs = <<>> /\ loads = 0

gridVars == <<mx, my, lx, ly, au, perturbed, last, FF, reads, inwr, writes,
              Xl, Xu>>

\* A shape function that adds the two factors.
chiSum(l, xi, eta) ==
    RefSteps * (2 * RefSteps + xiL(l) * xi + etaL(l) * eta)

\* chi(L, xi, eta) at the point <<xi/RefSteps, eta/RefSteps>>, as a multiple
\* of 1/(4 RefSteps^2): 0.25 (1 + xiL[L] xi) (1 + etaL[L] eta).
chi(l, xi, eta) ==
    (RefSteps + xiL(l) * xi) * (RefSteps + etaL(l) * eta)

InitChi ==
    /\ prog = "chi"
    /\ pc = "setup"
    /\ cfg \in [xi : (-RefSteps)..RefSteps, eta : (-RefSteps)..RefSteps]
    /\ out = <<>>
    /\ NoGrid

\* The four shape functions evaluated at the point, as eval does.
ChiEval ==
    /\ prog = "chi"
    /\ pc = "setup"
    /\ out' = [l \in 0..3 |-> chi(l, cfg.xi, cfg.eta)]
    /\ pc' = "done"
    /\ UNCHANGED <<prog, cfg, rhs, loads>>
    /\ UNCHANGED gridVars
    /\ UNCHANGED plapVars
    /\ UNCHANGED iceVars

SpecChi == InitChi /\ [][ChiEval]_vars

----------------------------------------------------------------------------
(* One flux point of the ice residual, evaluated on its own: the thickness *)
(* H at the point, the bed slope there, and the upwinded thickness Hup.    *)

\* lambda is a multiple of 1/LamSteps in [0, 1].
LamSteps == 2

\* Local coordinates in an element are multiples of 1/PtDen in [0, 1].
PtDen == 4 * LamSteps

\* Corner values of the thickness and of the bed on the element, and values
\* of sigma.
ThicknessVals == {0, 3}
BedVals == {0, 1}
SigmaVals == {0, 2}

\* Gradients of the weights of the bilinear interpolant.
gx(m) == IF m = 1 \/ m = 4 THEN -1 ELSE 1
gy(m) == IF m = 1 \/ m = 2 THEN -1 ELSE 1

\* The weights x[4], y[4] at a local coordinate.
WeightX(xi) == <<PtDen - xi, xi, xi, PtDen - xi>>
WeightY(eta) == <<PtDen - eta, PtDen - eta, eta, eta>>

\* fieldatpt, as a multiple of 1/PtDen^2.
fieldatpt(xi, eta, f) ==
    LET x == WeightX(xi)
        y == WeightY(eta)
    IN  x[1] * y[1] * f[1] + x[2] * y[2] * f[2]
        + x[3] * y[3] * f[3] + x[4] * y[4] * f[4]

\* gradfatpt: the x component as a multiple of 1/(PtDen dx), the y component
\* as a multiple of 1/(PtDen dy).
gradfatpt(xi, eta, f) ==
    LET x == WeightX(xi)
        y == WeightY(eta)
    IN  [x |-> gx(1) * y[1] * f[1] + gx(2) * y[2] * f[2]
               + gx(3) * y[3] * f[3] + gx(4) * y[4] * f[4],
         y |-> x[1] * gy(1) * f[1] + x[2] * gy(2) * f[2]
               + x[3] * gy(3) * f[3] + x[4] * gy(4) * f[4]]

\* Pseudo-velocity from the bed slope.
W(sigma, gb) == [x |-> -sigma * gb.x, y |-> -sigma * gb.y]

\* upmin taken on the far side.
upminAbove(lam) == 2 * (LamSteps + lam)

\* upmin = (1 - lambda) 0.5 and upmax = (1 + lambda) 0.5, lambda being
\* lam/LamSteps.
upmin(lam) == 2 * (LamSteps - lam)
upmax(lam) == 2 * (LamSteps + lam)

\* The body of the flux loop at point c up to the call of SIAflux: H, the bed
\* slope gb, the point where Hup is sampled and Hup.
FluxPoint(c, lam, aH, ab) ==
    LET px == locx(c) * LamSteps
        py == locy(c) * LamSteps
        H == fieldatpt(px, py, aH)
        gb == gradfatpt(px, py, ab)
        upwind == lam > 0
        lxup == IF xdire(c) THEN (IF gb.x <= 0 THEN upmin(lam) ELSE upmax(lam))
                            ELSE px
        lyup == IF xdire(c) THEN py
                            ELSE (IF gb.y <= 0 THEN upmin(lam) ELSE upmax(lam))
    IN  [H |-> H, gb |-> gb,
         at |-> IF upwind THEN <<lxup, lyup>> ELSE <<px, py>>,
         Hup |-> IF upwind THEN fieldatpt(lxup, lyup, aH) ELSE H]

InitUpwind ==
    /\ prog = "upwind"
    /\ pc = "setup"
    /\ cfg \in [c : 0..3, lam : 0..LamSteps,
                 aH : [1..4 -> ThicknessVals], ab : [1..4 -> BedVals],
                 sigma : SigmaVals]
    /\ out = <<>>
    /\ NoGrid

\* One pass of the body of the flux loop, and the pseudo-velocity SIAflux
\* computes from the bed slope.
UpwindEval ==
    /\ prog = "upwind"
    /\ pc = "setup"
    /\ \E r \in {FluxPoint(cfg.c, cfg.lam, cfg.aH, cfg.ab)} :
           out' = [H |-> r.H, gb |-> r.gb, at |-> r.at, Hup |-> r.Hup,
                   W |-> W(cfg.sigma, r.gb)]
    /\ pc' = "done"
    /\ UNCHANGED <<prog, cfg, rhs, loads>>
    /\ UNCHANGED gridVars
    /\ UNCHANGED plapVars
    /\ UNCHANGED iceVars

SpecUpwind == InitUpwind /\ [][UpwindEval]_vars

----------------------------------------------------------------------------
(* loadsolve: load A and b from a binary file and solve A x = b.           *)

\* Largest number of rows of the matrix in the file.
MaxRows == 2

\* Entries of the right-hand side in the file.
RhsVals == {0, 5}

\* The input files: whether the file can be read as a matrix, the number of
\* rows of the matrix, and the vector that follows it, if there is one.
Files ==
    UNION {{[A |-> a, m |-> m, hasb |-> TRUE, b |-> v] :
               a \in BOOLEAN, v \in [1..m -> RhsVals]} : m \in 1..MaxRows}
    \cup {[A |-> a, m |-> m, hasb |-> FALSE, b |-> <<>>] :
        a \in BOOLEAN, m \in 1..MaxRows}

\* VecLoad(b, lsfile): the error code and the vector loaded.
VecLoad(file) ==
    IF file.hasb THEN [ierr |-> 0, b |-> file.b] ELSE [ierr |-> 1, b |-> <<>>]

\* VecSetSizes(b, PETSC_DECIDE, m); VecSet(b, 0.0).
ZeroVector(m) == [i \in 1..m |-> 0]

\* A right-hand side that is loaded whether or not -norhs is given.
GetRhsAlwaysLoads(norhs, file) ==
    LET r == VecLoad(file)
    IN  IF norhs \/ r.ierr # 0
            THEN [loads |-> 1, b |-> ZeroVector(file.m),
                  printed |-> <<<<"print", "right-hand-side b missing", file.m>>>>]
            ELSE [loads |-> 1, b |-> r.b, printed |-> <<>>]

\* if (norhs || VecLoad(b,lsfile)) { ... }: the number of VecLoad calls, b
\* and what is printed.
GetRhs(norhs, file) ==
    IF norhs
        THEN [loads |-> 0, b |-> ZeroVector(file.m),
              printed |-> <<<<"print", "right-hand-side b missing", file.m>>>>]
    ELSE IF VecLoad(file).ierr # 0
        THEN [loads |-> 1, b |-> ZeroVector(file.m),
              printed |-> <<<<"print", "right-hand-side b missing", file.m>>>>]
    ELSE [loads |-> 1, b |-> VecLoad(file).b, printed |-> <<>>]

InitLoadSolve ==
    /\ prog = "loadsolve"
    /\ pc = "setup"
    /\ cfg \in [flg : BOOLEAN, norhs : BOOLEAN, notime : BOOLEAN, file : Files]
    /\ out = <<>>
    /\ NoGrid

\* main up to PetscViewerDestroy: the options, the matrix, the right-hand
\* side.
LoadSolveRead ==
    /\ prog = "loadsolve"
    /\ pc = "setup"
    /\ IF ~cfg.flg
           THEN /\ out' = <<<<"print", "no input file">>, <<"return", 0>>>>
                /\ pc' = "done"
                /\ UNCHANGED <<rhs, loads>>
       ELSE IF ~cfg.file.A
           THEN /\ out' = <<<<"print", "reading linear system">>, <<"error", 1>>>>
                /\ pc' = "failed"
                /\ UNCHANGED <<rhs, loads>>
       ELSE \E r \in {GetRhs(cfg.norhs, cfg.file)} :
                /\ out' = <<<<"print", "reading linear system">>>> \o r.printed
                /\ rhs' = r.b
                /\ loads' = r.loads
                /\ pc' = "solve"
    /\ UNCHANGED <<prog, cfg>>
    /\ UNCHANGED gridVars
    /\ UNCHANGED plapVars
    /\ UNCHANGED iceVars

\* main from KSPCreate: the solve, its timing, the clean-up.
LoadSolveSolve ==
    /\ prog = "loadsolve"
    /\ pc = "solve"
    /\ out' = out \o <<<<"KSPSolve", rhs>>>>
                  \o (IF ~cfg.notime THEN <<<<"print", "PetscTime says">>>>
                                     ELSE <<>>)
                  \o <<<<"return", 0>>>>
    /\ rhs' = <<>>
    /\ pc' = "done"
    /\ UNCHANGED <<prog, cfg, loads>>
    /\ UNCHANGED gridVars
    /\ UNCHANGED plapVars
    /\ UNCHANGED iceVars

NextLoadSolve == LoadSolveRead \/ LoadSolveSolve

SpecLoadSolve == InitLoadSolve /\ [][NextLoadSolve]_vars

----------------------------------------------------------------------------
(* The residual evaluated on two iterates that differ on the boundary of   *)
(* the grid only: au is the first iterate and FF its residual, cfg.alt is  *)
(* the second iterate and out its residual.                                *)

\* Largest grid dimension of the runs that compare two iterates.
PairM == 3

\* The iterate the program starts from.
StartIterate == IF prog = "plap" THEN InitialIterate ELSE [n \in Nodes |-> 0]

\* The iterates the solver reaches from the start by changing at most one
\* interior entry.
FirstIterates ==
    {StartIterate}
    \cup {[StartIterate EXCEPT ![n] = 2] :
             n \in {m \in Nodes : ~OnBoundary(m[1], m[2])}}

\* The iterates that differ from a in one entry on the boundary of the grid.
BoundaryVariants(a) ==
    {[a EXCEPT ![n] = v] :
        n \in {m \in Nodes : OnBoundary(m[1], m[2])}, v \in SolverVals}

\* The residual of the program on the iterate a, every process running its
\* local routine on a cleared residual array: the array, and whether a
\* process returned the error.
GlobalResidual(a, junk) ==
    IF prog = "plap"
        THEN LET loc == Table([p \in Procs |->
                           FormFunctionLocal(Info(p), a, ZeroFF, junk)])
             IN  [FF |-> Table([n \in Nodes |-> loc[Owner(n[1], n[2])].FF[n]]),
                  err |-> FALSE]
        ELSE LET loc == Table([p \in Procs |->
                           IceFunctionLocal(Info(p), a, ZeroFF, junk)])
             IN  [FF |-> Table([n \in Nodes |-> loc[Owner(n[1], n[2])].FF[n]]),
                  err |-> \E p \in Procs : loc[p].err]

InitPair ==
    /\ prog \in {"plap", "ice"}
    /\ pc = "solve"
    /\ mx \in 3..PairM /\ my \in 3..PairM
    /\ lx \in Partitions(mx) /\ ly \in Partitions(my)
    /\ verif \in {FALSE, prog = "ice"} /\ check \in {FALSE, prog = "ice"}
    /\ au \in FirstIterates
    /\ cfg \in {[alt |-> a] : a \in BoundaryVariants(au)}
    /\ out = <<>>
    /\ FF = ZeroFF
    /\ Xl = <<>> /\ Xu = <<>>
    /\ perturbed = FALSE
    /\ last = "none"
    /\ obj = EmptyBag
    /\ acc = {} /\ elems = {} /\ bdry = {} /\ reads = {} /\ writes = {}
    /\ inwr = {}
    /\ err = {} /\ work = <<>> /\ bedwr = {} /\ fluxwr = {}
    /\ rhs = <<>> /\ loads = 0

\* The solver asks for the residual of both iterates, one call after the
\* other.
PairFunction ==
    /\ pc = "solve"
    /\ last = "none"
    /\ \E ra \in {GlobalResidual(au, junk) : junk \in Junk},
          rb \in {GlobalResidual(cfg.alt, junk) : junk \in Junk} :
           /\ FF' = ra.FF
           /\ out' = rb.FF
           /\ last' = IF ra.err \/ rb.err THEN "error" ELSE "function"
    /\ UNCHANGED <<prog, pc, cfg, mx, my, lx, ly, au, perturbed, reads, inwr,
                   writes, Xl, Xu, rhs, loads>>
    /\ UNCHANGED plapVars
    /\ UNCHANGED iceVars

SpecPair == InitPair /\ [][PairFunction]_vars


----------------------------------------------------------------------------
(* Properties of the p-Laplacian assembly.                                 *)

Interior == {n \in Nodes : ~OnBoundary(n[1], n[2])}

\* The elements that have node <<PP, QQ>> as a corner, each with the local
\* index of that corner: <<i, j, l>>.
Touching(PP, QQ) ==
    {<<PP, QQ, 0>>, <<PP + 1, QQ, 1>>, <<PP + 1, QQ + 1, 2>>, <<PP, QQ + 1, 3>>}

\* C1: after the p-Laplacian residual has run on every process, every
\* interior node has been accumulated into by exactly its owner, which added
\* one contribution from each of the 4 elements touching the node (corner
\* 0, 1, 2, 3 of elements (PP,QQ), (PP+1,QQ), (PP+1,QQ+1), (PP,QQ+1)) and
\* none from any other element.
C1_InteriorAccumulatedOnce ==
    (prog = "plap" /\ last = "function") =>
        \A n \in Interior :
            /\ {c \in acc : c[5] = n[1] /\ c[6] = n[2]}
                 = {<<Owner(n[1], n[2]), t[1], t[2], t[3], n[1], n[2]>> :
                        t \in Touching(n[1], n[2])}
            /\ FF[n].base = 0
            /\ BagCardinality(FF[n].terms) = 4
            /\ {<<t[1], t[2], t[3]>> : t \in BagToSet(FF[n].terms)}
                 = Touching(n[1], n[2])

\* An interior node on the first column and row of the second process in
\* either direction has received its accumulations, on a changed iterate.
C1_Witness ==
    /\ prog = "plap" /\ last = "function" /\ perturbed
    /\ Len(lx) = 2 /\ Len(ly) = 2
    /\ <<lx[1], ly[1]>> \in Interior
    /\ \E c \in acc : c[1] = <<2, 2>> /\ c[5] = lx[1] /\ c[6] = ly[1]

\* C2: over all processes, the element loops of the p-Laplacian objective
\* visit every element of the global grid (upper-right node <<i, j>>,
\* 1 <= i <= mx-1, 1 <= j <= my-1) exactly once.
C2_EveryElementOnce ==
    (prog = "plap" /\ last = "objective") =>
        \A i \in 1..(mx - 1), j \in 1..(my - 1) :
            Cardinality({t \in elems : t[2] = i /\ t[3] = j}) = 1

\* C3: over all processes, the boundary term of the p-Laplacian objective is
\* added exactly once for every node of the global boundary, and each
\* process adds it only for nodes of its own owned rectangle.
C3_BoundaryTermOnce ==
    (prog = "plap" /\ last = "objective") =>
        /\ \A n \in Nodes \ Interior :
               Cardinality({t \in bdry : t[3] = n[1] /\ t[4] = n[2]}) = 1
        /\ \A t \in bdry : Owned(Info(t[1]), t[3], t[4])

C10_ReadsInsidePatch ==
    (prog = "plap" /\ last \in {"objective", "function"}) =>
        \A r \in reads : InPatch(Info(r[1]), r[2], r[3])

----------------------------------------------------------------------------
(* Properties of the ice residual.                                         *)

\* The flux terms of the residual at node n:
\* <<"flux", s, coefficient, c, element j, element k, stored value>>.
FluxTerms(n) == {t \in BagToSet(FF[n].terms) : t[1] = "flux"}

SameEntry(t, u) == t[4] = u[4] /\ t[5] = u[5] /\ t[6] = u[6]

\* Position of the point of term t relative to node n, in quarters of dx
\* and of dy.
PointX(n, t) == 4 * (t[5] - n[1]) + locx(t[4])
PointY(n, t) == 4 * (t[6] - n[2]) + locy(t[4])

\* C4: for two horizontally or vertically adjacent interior nodes, each of
\* the two flux values on the face their control volumes share is the same
\* stored entry (same element, same point c) in both 8-point sums, with
\* coefficients that add to zero; over all interior nodes, no entry is used
\* more than twice and an entry used twice cancels.
C4_SharedFaceFluxCancels ==
    (prog = "ice" /\ last = "function") =>
        /\ \A n \in Interior, m \in Interior :
               (m = <<n[1] + 1, n[2]>> \/ m = <<n[1], n[2] + 1>>) =>
                   LET east == m[1] = n[1] + 1
                       face == {t \in FluxTerms(n) :
                                   IF east THEN PointX(n, t) = 2 ELSE PointY(n, t) = 2}
                   IN  /\ Cardinality(face) = 2
                       /\ \A t \in face :
                              \E u \in FluxTerms(m) :
                                  /\ SameEntry(t, u)
                                  /\ t[7] = u[7]
                                  /\ t[3] + u[3] = 0
                                  /\ t[3] # 0
                                  /\ IF east THEN PointX(m, u) = -2
                                             ELSE PointY(m, u) = -2
        /\ LET uses == UNION {{<<n, t>> : t \in FluxTerms(n)} : n \in Interior}
           IN  \A x \in uses :
                   LET same == {y \in uses : SameEntry(x[2], y[2])}
                   IN  /\ Cardinality(same) <= 2
                       /\ \A y \in same \ {x} :
                              y[1] # x[1] /\ x[2][3] + y[2][3] = 0

\* Residuals of two adjacent interior nodes owned by different processes,
\* computed on a thickness that is positive at one of them.
C4_Witness ==
    /\ prog = "ice" /\ last = "function" /\ perturbed /\ ~verif
    /\ \E n \in Interior, m \in Interior :
           /\ m = <<n[1] + 1, n[2]>> \/ m = <<n[1], n[2] + 1>>
           /\ Owner(n[1], n[2]) # Owner(m[1], m[2])
           /\ au[n] > 0
           /\ Cardinality(FluxTerms(n)) = 8 /\ Cardinality(FluxTerms(m)) = 8

\* C5: for every s in 0..7 the entry used at point s of node <<j, k>> is
\* point ce[s] of element <<j+je[s], k+ke[s]>>, and that point lies on the
\* boundary of the control volume of the node; it is an x-direction flux
\* exactly on the east and west faces; coeff[s] is the outward sign times
\* half the face length (dy/2 east and west, dx/2 north and south); each of
\* the four faces holds exactly two of the eight points.
C5_PointsOnControlVolume ==
    (prog = "ice" /\ last = "function") =>
        \A n \in Interior :
            /\ {t[2] : t \in FluxTerms(n)} = 0..7
            /\ Cardinality(FluxTerms(n)) = 8
            /\ \A t \in FluxTerms(n) :
                   LET px == PointX(n, t)
                       py == PointY(n, t)
                   IN  /\ t[4] = ce(t[2])
                       /\ t[5] = n[1] + je(t[2]) /\ t[6] = n[2] + ke(t[2])
                       /\ \/ px \in {-2, 2} /\ py \in {-1, 1}
                          \/ py \in {-2, 2} /\ px \in {-1, 1}
                       /\ t[7].c = t[4]
                       /\ t[7].xdir <=> px \in {-2, 2}
                       /\ xdire(t[4]) <=> px \in {-2, 2}
                       /\ t[3] = CASE px = 2 -> dy \div 2
                                   [] px = -2 -> -(dy \div 2)
                                   [] py = 2 -> dx \div 2
                                   [] py = -2 -> -(dx \div 2)
            /\ Cardinality({t \in FluxTerms(n) : PointX(n, t) = 2}) = 2
            /\ Cardinality({t \in FluxTerms(n) : PointX(n, t) = -2}) = 2
            /\ Cardinality({t \in FluxTerms(n) : PointY(n, t) = 2}) = 2
            /\ Cardinality({t \in FluxTerms(n) : PointY(n, t) = -2}) = 2

\* A residual computed on a grid whose spacings differ.
C5_Witness ==
    /\ prog = "ice" /\ last = "function" /\ dx # dy
    /\ \E n \in Interior : Cardinality(FluxTerms(n)) = 8

\* C7: after the ice residual returns without error, the residual at every
\* owned node of the global boundary is the input thickness at that node,
\* with no source or flux term added.
C7_IceBoundaryResidual ==
    (prog = "ice" /\ last \in {"function", "error"}) =>
        \A p \in Procs \ err : \A n \in Nodes \ Interior :
            Owned(Info(p), n[1], n[2]) =>
                FF[n] = [base |-> au[n], terms |-> EmptyBag]

\* The residual has been computed without error on a thickness that is not
\* zero at a boundary node, with a bed that is not flat.
C7_Witness ==
    /\ prog = "ice" /\ last = "function" /\ perturbed /\ ~verif
    /\ Len(lx) = 2
    /\ \E n \in Nodes \ Interior : au[n] # 0 /\ FF[n].base = au[n]

\* C8: with the admissibility check enabled, a call of the ice residual on
\* a process whose patch (owned or halo nodes inside the grid) holds a
\* negative thickness returns the error and computes no bed value, no flux
\* and no interior residual.
C8_InadmissibleStops ==
    [][(/\ prog = "ice" /\ check
        /\ Solving /\ pc' = "solve" /\ perturbed' = perturbed) =>
          \A p \in Procs :
              (\E n \in PatchNodes(Info(p)) : au[n] < 0) =>
                  /\ last' = "error" /\ p \in err'
                  /\ ~\E t \in bedwr' : t[1] = p
                  /\ ~\E t \in fluxwr' : t[1] = p
                  /\ work'[p].got = {"Hcopy"}
                  /\ \A n \in Interior :
                         Owned(Info(p), n[1], n[2]) =>
                             /\ FF'[n] = FF[n]
                             /\ <<p, n[1], n[2]>> \notin writes']_vars

\* A process returned the error for a negative thickness at a halo node it
\* does not own, and an interior residual of an earlier call is still in
\* place.
C8_Witness ==
    /\ prog = "ice" /\ check /\ last = "error"
    /\ \E p \in err :
           /\ \E n \in PatchNodes(Info(p)) :
                  au[n] < 0 /\ ~Owned(Info(p), n[1], n[2])
           /\ \E n \in Interior :
                  Owned(Info(p), n[1], n[2]) /\ Cardinality(FluxTerms(n)) = 8

\* C9: a second call of the p-Laplacian objective, of the p-Laplacian
\* residual or of the ice residual on the same iterate gives the result of
\* the first: nothing an earlier call left behind (output array, work
\* vectors) shows in the output.
C9_Idempotent ==
    [][(last \in {"objective", "function"} /\ last' = last /\ au' = au) =>
          (obj' = obj /\ FF' = FF)]_vars

\* C11: no assembler call (the plap objective, the plap residual, the ice
\* residual) changes an entry, owned or halo, of the array of the iterate it is
\* given; the ice routine sets the boundary thickness to zero in its copy only.
C11_InputUnchanged ==
    last \in {"objective", "function", "error"} => inwr = {}

\* An ice residual call on an iterate that is not zero at a boundary node that
\* some process holds as a halo node.
C11_Witness ==
    /\ prog = "ice" /\ last = "function"
    /\ \E p \in Procs : \E n \in PatchNodes(Info(p)) :
           /\ OnBoundary(n[1], n[2]) /\ ~Owned(Info(p), n[1], n[2])
           /\ au[n] # 0 /\ <<p, n[1], n[2]>> \notin inwr

\* C12: every work vector the ice residual routine obtains (the thickness
\* copy, the bed, the four flux arrays) is restored before the call returns, on
\* every return path, including the return that raises the admissibility error.
C12_WorkVectorsRestored ==
    (prog = "ice" /\ last \in {"function", "error"}) =>
        \A p \in Procs : work[p].restored = work[p].got

\* The value slot l of element <<i, j>> has to hold: that of the node at
\* reference position <<xiL(l), etaL(l)>>, the boundary function when the node
\* is on the boundary of the grid and the iterate otherwise.
SlotNode(i, j, l) == <<i - (1 - xiL(l)) \div 2, j - (1 - etaL(l)) \div 2>>

SlotValue(i, j, l) ==
    LET n == SlotNode(i, j, l)
    IN  IF OnBoundary(n[1], n[2]) THEN BoundaryG(n[1], n[2]) ELSE au[n]

\* The elements with the values GetUorGElement returned for them in the last
\* call: <<i, j, u>>.
ElementValues ==
    IF last = "objective"
        THEN {<<t[2], t[3], t[4]>> :
                 t \in {v \in BagToSet(obj) : v[1] = "element"}}
    ELSE IF last = "function" /\ prog = "plap"
        THEN UNION {{<<t[1], t[2], t[4]>> : t \in BagToSet(FF[n].terms)} :
                       n \in Nodes}
    ELSE {}

\* C20: for every element <<i, j>> with 1 <= i <= mx-1 and 1 <= j <= my-1,
\* GetUorGElement returns in slot l the value for node <<i + li(l), j + lj(l)>>,
\* which is the node at reference position <<xiL(l), etaL(l)>>: the boundary
\* function exactly when that node is on the boundary of the grid, and the
\* iterate value otherwise.
C20_SlotsAreCornerValues ==
    \A e \in ElementValues :
        (e[1] \in 1..(mx - 1) /\ e[2] \in 1..(my - 1)) =>
            \A l \in 0..3 :
                /\ SlotNode(e[1], e[2], l) = <<e[1] + li(l), e[2] + lj(l)>>
                /\ e[3][l] = SlotValue(e[1], e[2], l)

\* A call after a solver step in which an element has a corner on the boundary
\* and the changed interior node as another corner.
C20_Witness ==
    /\ perturbed
    /\ \E e \in ElementValues : \E l, m \in 0..3 :
           LET n == SlotNode(e[1], e[2], l)
               o == SlotNode(e[1], e[2], m)
           IN  /\ OnBoundary(n[1], n[2]) /\ e[3][l] = BoundaryG(n[1], n[2])
               /\ ~OnBoundary(o[1], o[2]) /\ e[3][m] = au[o]
               /\ au[o] # InitialIterate[o]

\* The elements whose four corner nodes are owned or halo nodes of the process
\* and inside the grid.
PatchElements(I) ==
    {e \in Box(0, mx - 2, 0, my - 2) :
        \A m \in 1..4 : InPatch(I, Corners(e[1], e[2])[m][1],
                                  Corners(e[1], e[2])[m][2])}

\* C18: in one call of the ice residual on a process, the flux entries
\* computed are those of the four points of every element whose corners lie in
\* the owned rectangle plus halo and in the grid, each computed by the flux
\* loop that precedes the node loop; and every flux entry the node loop reads
\* for an owned interior node is one of the entries computed in that call.
C18_FluxComputedThenRead ==
    (prog = "ice" /\ last = "function") =>
        /\ \A p \in Procs :
              {<<f[2], f[3], f[4]>> : f \in {g \in fluxwr : g[1] = p}}
                  = {<<c, e[1], e[2]>> : c \in 0..3, e \in PatchElements(Info(p))}
        /\ \A n \in Interior : \A t \in FluxTerms(n) :
              /\ <<Owner(n[1], n[2]), t[4], t[5], t[6]>> \in fluxwr
              /\ t[7].c = t[4]

\* A call in which the node loop of a process reads a flux entry of an element
\* that has a halo node as a corner.
C18_Witness ==
    /\ prog = "ice" /\ last = "function" /\ perturbed
    /\ \E n \in Interior : \E t \in FluxTerms(n) :
           /\ ~Owned(Info(Owner(n[1], n[2])), t[5], t[6])
           /\ <<Owner(n[1], n[2]), t[4], t[5], t[6]>> \in fluxwr
           /\ t[7].q # <<>>

\* The options hold a value that setup rejects.
BadOptions ==
    \/ prog = "plap" /\ (cfg.p < 1 \/ cfg.quaddegree \notin {1, 2, 3})
    \/ prog = "ice" /\ cfg.n_ice <= 1

C14_BoundsZeroInfinity ==
    (prog = "ice" /\ pc = "solve") =>
        /\ FormBounds.Xl = [n \in Nodes |-> 0]
        /\ FormBounds.Xu = [n \in Nodes |-> PETSC_INFINITY]
        /\ Xl # <<>> => (Xl = [n \in Nodes |-> 0]
                          /\ Xu = [n \in Nodes |-> PETSC_INFINITY])

\* The bounds are set while the iterate is negative at a node.
C14_Witness ==
    /\ prog = "ice" /\ pc = "solve" /\ perturbed
    /\ \E n \in Nodes : au[n] < 0 /\ Xl[n] = 0 /\ Xu[n] = PETSC_INFINITY

\* C17: when the solver of ice ends with a converged reason <= 0, main
\* prints the warning and goes on: the iteration report, the dump if asked
\* for, the verification report in the verification case, and then the normal
\* finalization; it does not return an error.
C17_NotConvergedGoesOn ==
    /\ (prog = "ice" /\ pc = "done") =>
          LET reason == out[1][2]
              dump == out[1][3]
              printed == Tail(out)
              At(m) == {i \in 1..Len(printed) : printed[i] = m}
          IN  /\ (reason <= 0) <=> (At("WARNING: SNES not converged") = {1})
              /\ \E i \in At("done on grid") :
                    /\ dump => \E k \in At("writing PETSC binary file") : i < k
                    /\ verif => \E k \in At("numerical errors") : i < k
              /\ At("PetscFinalize") = {Len(printed)}
    /\ (prog = "ice" /\ pc = "failed") => (cfg.n_ice <= 1 \/ check)

\* ice has ended normally after a solve that did not converge, with the dump
\* and the verification report.
C17_Witness ==
    /\ prog = "ice" /\ pc = "done" /\ verif
    /\ out[1][2] <= 0 /\ out[1][3]
    /\ out[2] = "WARNING: SNES not converged"
    /\ out[Len(out)] = "PetscFinalize"

\* C15: the shape function of corner l is 1 at the reference position of
\* corner l and 0 at the reference position of every other corner, and the
\* four shape functions sum to 1 at every point of [-1, 1]^2.
C15_ShapeFunctions ==
    (prog = "chi" /\ pc = "done") =>
        /\ out[0] + out[1] + out[2] + out[3] = 4 * RefSteps * RefSteps
        /\ \A m \in 0..3 :
              (cfg.xi = RefSteps * xiL(m) /\ cfg.eta = RefSteps * etaL(m)) =>
                  \A l \in 0..3 :
                      out[l] = IF l = m THEN 4 * RefSteps * RefSteps ELSE 0

\* The shape functions evaluated at the corner <<-1, 1>>, which is corner 1.
C15_Witness ==
    /\ prog = "chi" /\ pc = "done"
    /\ cfg.xi = -RefSteps /\ cfg.eta = RefSteps
    /\ out[1] = 4 * RefSteps * RefSteps /\ out[0] = 0 /\ out[2] = 0 /\ out[3] = 0

\* C19: at a flux point, with lambda in [0, 1], Hup is sampled in the same
\* element at the flux point with only the coordinate along the flux direction
\* changed: to (1 - lambda)/2 when the bed slope in that direction is <= 0 and
\* to (1 + lambda)/2 when it is > 0.  That is the upstream side with respect
\* to the pseudo-velocity W = -sigma grad b; the sample point stays in
\* [0, 1]^2; and for lambda = 0 Hup is the centered value H.
C19_UpwindSample ==
    (prog = "upwind" /\ pc = "done") =>
        LET along == IF xdire(cfg.c) THEN 1 ELSE 2
            across == 3 - along
            pt == <<locx(cfg.c) * LamSteps, locy(cfg.c) * LamSteps>>
            slope == IF xdire(cfg.c) THEN out.gb.x ELSE out.gb.y
            w == IF xdire(cfg.c) THEN out.W.x ELSE out.W.y
        IN  /\ out.at[across] = pt[across]
            /\ slope <= 0 =>
                  2 * LamSteps * out.at[along] = PtDen * (LamSteps - cfg.lam)
            /\ slope > 0 =>
                  2 * LamSteps * out.at[along] = PtDen * (LamSteps + cfg.lam)
            /\ w > 0 => out.at[along] <= pt[along]
            /\ w < 0 => out.at[along] >= pt[along]
            /\ \A m \in 1..2 : out.at[m] >= 0 /\ out.at[m] <= PtDen
            /\ cfg.lam = 0 => out.Hup = out.H

\* Full upwinding on a bed that rises in x at an x-direction point: the
\* pseudo-velocity points to the left, the sample is taken at the right end of
\* the element and differs from the centered value.
C19_Witness ==
    /\ prog = "upwind" /\ pc = "done"
    /\ xdire(cfg.c) /\ cfg.lam = LamSteps
    /\ out.gb.x > 0 /\ out.W.x < 0
    /\ out.at[1] = PtDen
    /\ out.Hup # out.H

\* C16: in loadsolve, with -norhs or with a VecLoad that fails, b becomes the
\* zero vector of as many entries as the loaded matrix has rows and the program
\* goes on to the solve; with -norhs VecLoad is not called at all; a vector
\* that loads is used as b unchanged.
C16_MissingRhsIsZero ==
    (prog = "loadsolve" /\ cfg.flg /\ cfg.file.A /\ pc # "setup") =>
        LET b == IF pc = "solve" THEN rhs
                 ELSE (CHOOSE e \in {out[i] : i \in 1..Len(out)} :
                           e[1] = "KSPSolve")[2]
        IN  /\ pc \in {"solve", "done"}
            /\ cfg.norhs => loads = 0
            /\ (cfg.norhs \/ ~cfg.file.hasb) =>
                  (DOMAIN b = 1..cfg.file.m /\ \A i \in 1..cfg.file.m : b[i] = 0)
            /\ (~cfg.norhs /\ cfg.file.hasb) => (loads = 1 /\ b = cfg.file.b)
            /\ pc = "done" =>
                  (\E i \in 1..Len(out) : out[i][1] = "KSPSolve")
                  /\ out[Len(out)] = <<"return", 0>>

\* The file holds a right-hand side that is not zero, -norhs is given, and
\* the solve has run on the zero vector.
C16_Witness ==
    /\ prog = "loadsolve" /\ pc = "done"
    /\ cfg.norhs /\ cfg.file.hasb /\ cfg.file.m = MaxRows
    /\ \E i \in 1..MaxRows : cfg.file.b[i] # 0
    /\ loads = 0
    /\ \E i \in 1..Len(out) :
           out[i][1] = "KSPSolve" /\ out[i][2] = ZeroVector(MaxRows)

\* C21: outside the verification case, every bed value the flux loop of the
\* ice residual reads, the four corner nodes of each element it visits, the
\* nodes with j = mx-1 or k = my-1 among them, was written by FormBedLocal
\* earlier in the same call.
C21_BedReadsWritten ==
    (prog = "ice" /\ last = "function" /\ ~verif) =>
        \A f \in fluxwr : \A m \in 1..4 :
            <<f[1], Corners(f[3], f[4])[m][1], Corners(f[3], f[4])[m][2]>>
                \in bedwr

\* C22: for two iterates that agree at every interior node and differ only
\* at nodes on the boundary of the grid, and for which no error is raised, the
\* residual at every interior node is the same, in the p-Laplacian residual
\* (g is taken at boundary corners) and in the ice residual (0 is taken at
\* boundary nodes in the copy).
C22_BoundaryValuesIgnored ==
    (last = "function" /\ out # <<>>) =>
        \A n \in Interior : FF[n] = out[n]

\* The entries of the residual array process p wrote in the last call.
WrittenBy(p) == {<<w[2], w[3]>> : w \in {v \in writes : v[1] = p}}

\* C23: after a residual call (p-Laplacian or ice) that returns without
\* error on a process, every entry of FF inside the owned rectangle of the
\* process has been assigned during that call, and no entry of FF outside the
\* owned rectangle has been written.
C23_WritesAreOwned ==
    (prog \in {"plap", "ice"} /\ last \in {"function", "error"}) =>
        \A p \in Procs \ err :
            LET I == Info(p)
            IN  /\ \A w \in writes : w[1] = p => Owned(I, w[2], w[3])
                /\ \A n \in Box(I.xs, I.xs + I.xm - 1, I.ys, I.ys + I.ym - 1) :
                       <<p, n[1], n[2]>> \in writes

\* A call on several processes after a solver step: a process has written an
\* interior node and a boundary node it owns, and has left a halo node alone.
C23_Witness ==
    /\ last = "function" /\ perturbed
    /\ \E p \in Procs :
           /\ \E n \in WrittenBy(p) : ~OnBoundary(n[1], n[2])
           /\ \E n \in WrittenBy(p) : OnBoundary(n[1], n[2])
           /\ \E n \in Nodes : /\ InPatch(Info(p), n[1], n[2])
                                /\ ~Owned(Info(p), n[1], n[2])
                                /\ n \notin WrittenBy(p)

====
